---- MODULE Spec2Model ----
(***************************************************************************)
(* Model of scripts/build_geojson.py: the DATEX2 controlled-zone extractor *)
(* (parse_madrid_like_datex_xml, order_ring, _text), the FeatureCollection *)
(* builder and main.                                                       *)
(*                                                                         *)
(* Encoding.  A text is a sequence of one-character strings, so that       *)
(* stripping and float() parsing are computed.  An XML element that only   *)
(* carries text is the sequence of its text fragments (what itertext()     *)
(* yields).  The result of an xpath query is the sequence of the matched   *)
(* nodes in document order.  A coordinate value is an integer; the         *)
(* centroid of order_ring is kept exact by scaling every offset by the     *)
(* number of points, which leaves every atan2 angle unchanged.  Points     *)
(* whose exact angles are equal keep their document order (sorted() is     *)
(* stable); floating-point rounding may order distinct points of equal     *)
(* exact angle otherwise, always the same way for the same input, and no   *)
(* property below reads the order of such points.                          *)
(***************************************************************************)
EXTENDS Integers, Sequences, FiniteSets, TLC

\* ------------------------------------------------------------------ bounds
\* openlrCoordinates nodes per openlrPolygonCorners block
MaxCoords == 4
\* openlrPolygonCorners blocks per controlledZone
MaxBlocks == 3
\* controlledZone nodes per document
MaxZones == 3
\* entries of SOURCES
MaxSources == 2

VARIABLES
    SOURCES,        \* the configured cities, in order
    si,             \* main: index of the source being processed (1-based)
    pc,             \* position in the code
    wellformed,     \* whether the fetched bytes are parseable XML
    content,        \* cz_nodes of the fetched document
    zi,             \* index of the controlledZone being processed
    zone_id,        \* local zone_id
    zone_name,      \* local zone_name
    multipolygons,  \* local multipolygons
    bi,             \* index of the openlrPolygonCorners block being processed
    ci,             \* index of the openlrCoordinates node being processed
    ring,           \* local ring
    features,       \* local features of the extractor
    emitted_from,   \* history: for each entry of features, the zone index it was built from
    all_features,   \* main's all_features
    writes,         \* history of the file system: every file write, in order
    fetches,        \* history: the source indexes requests.get was called for
    printed,        \* whether the completion message was printed
    error           \* the exception that ended the run, "" when none

vars == <<SOURCES, si, pc, wellformed, content, zi, zone_id, zone_name,
          multipolygons, bi, ci, ring, features, emitted_from, all_features,
          writes, fetches, printed, error>>

mainVars == <<SOURCES, si, wellformed, all_features, writes, fetches, printed, error>>

\* ------------------------------------------------------------------- texts
Whitespace == {" "}

Digits == {"0", "1", "2", "3", "4", "5", "6", "7", "8", "9"}

DigitChars == <<"0", "1", "2", "3", "4", "5", "6", "7", "8", "9">>

DigitValue(ch) == (CHOOSE i \in 1..10 : DigitChars[i] = ch) - 1

RECURSIVE LStrip(_)
LStrip(s) == IF s # <<>> /\ Head(s) \in Whitespace THEN LStrip(Tail(s)) ELSE s

RECURSIVE RStrip(_)
RStrip(s) ==
    IF s # <<>> /\ s[Len(s)] \in Whitespace
    THEN RStrip(SubSeq(s, 1, Len(s) - 1))
    ELSE s

\* str.strip()
Strip(s) == RStrip(LStrip(s))

RECURSIVE Join(_)
\* "".join(fragments)
Join(frags) == IF frags = <<>> THEN <<>> ELSE Head(frags) \o Join(Tail(frags))

\* _text(node) for a node that is not None
NodeText(node) == Strip(Join(node))

RECURSIVE AsString(_)
\* the text as one string value
AsString(s) == IF s = <<>> THEN "" ELSE Head(s) \o AsString(Tail(s))

\* float(): the digits after the optional sign of a stripped text
Unsigned(s) ==
    LET t == Strip(s)
    IN  IF t # <<>> /\ Head(t) \in {"-", "+"} THEN Tail(t) ELSE t

\* float(s) does not raise ValueError, for texts over the digits, a sign, blanks
\* and the letter x
FloatParses(s) ==
    /\ Unsigned(s) # <<>>
    /\ \A i \in 1..Len(Unsigned(s)) : Unsigned(s)[i] \in Digits

RECURSIVE DecimalValue(_)
DecimalValue(ds) ==
    IF ds = <<>> THEN 0
    ELSE 10 * DecimalValue(SubSeq(ds, 1, Len(ds) - 1)) + DigitValue(ds[Len(ds)])

\* float(s) when it parses
FloatValue(s) ==
    LET t == Strip(s)
    IN  IF t # <<>> /\ Head(t) = "-"
        THEN 0 - DecimalValue(Unsigned(s))
        ELSE DecimalValue(Unsigned(s))

\* -------------------------------------------------------------- order_ring
RECURSIVE SumOf(_, _)
\* sum(p[k] for p in points)
SumOf(points, k) ==
    IF points = <<>> THEN 0 ELSE Head(points)[k] + SumOf(Tail(points), k)

\* (p[0] - cx, p[1] - cy) scaled by len(points)
Offset(p, points) ==
    <<Len(points) * p[1] - SumOf(points, 1), Len(points) * p[2] - SumOf(points, 2)>>

\* where atan2(dy, dx) lies: 0 in (-pi, 0), 1 at 0 (also atan2(0, 0)),
\* 2 in (0, pi), 3 at pi
AngleBand(d) ==
    IF d[2] < 0 THEN 0
    ELSE IF d[2] > 0 THEN 2
    ELSE IF d[1] >= 0 THEN 1
    ELSE 3

\* atan2(a) < atan2(b)
AngleLess(a, b) ==
    \/ AngleBand(a) < AngleBand(b)
    \/ /\ AngleBand(a) = AngleBand(b)
       /\ AngleBand(a) \in {0, 2}
       /\ a[1] * b[2] - a[2] * b[1] > 0

RECURSIVE InsertByAngle(_, _, _)
\* p goes after every entry whose key is not greater than p's (a stable sort)
InsertByAngle(sorted, p, points) ==
    IF sorted = <<>> THEN <<p>>
    ELSE IF AngleLess(Offset(p, points), Offset(Head(sorted), points))
         THEN <<p>> \o sorted
         ELSE <<Head(sorted)>> \o InsertByAngle(Tail(sorted), p, points)

RECURSIVE SortedByAngle(_, _)
\* sorted(points[1..n], key=atan2 around the centroid of points)
SortedByAngle(points, n) ==
    IF n = 0 THEN <<>>
    ELSE InsertByAngle(SortedByAngle(points, n - 1), points[n], points)

order_ring(points) == SortedByAngle(points, Len(points))

\* ---------------------------------------------------- extractor, per node
\* mutant: a text that is not a number counts as 0.0 instead of being skipped
CoordStep_BadAsZero(r, c) ==
    IF c.latitude = <<>> \/ c.longitude = <<>> THEN r
    ELSE Append(r, <<IF FloatParses(NodeText(c.longitude[1]))
                     THEN FloatValue(NodeText(c.longitude[1])) ELSE 0,
                     IF FloatParses(NodeText(c.latitude[1]))
                     THEN FloatValue(NodeText(c.latitude[1])) ELSE 0>>)

\* one iteration of the loop over coords_nodes
CoordStep(r, c) ==
    IF c.latitude = <<>> \/ c.longitude = <<>> THEN r
    ELSE IF ~FloatParses(NodeText(c.longitude[1])) THEN r
    ELSE IF ~FloatParses(NodeText(c.latitude[1])) THEN r
    ELSE Append(r, <<FloatValue(NodeText(c.longitude[1])),
                     FloatValue(NodeText(c.latitude[1]))>>)

\* the points a polygon needs: a ring with fewer is discarded
MinRingPoints == 3

\* mutant: the length check off by one
RingTooShort_OffByOne(r) == Len(r) < MinRingPoints - 1

\* "if len(ring) < 3"
RingTooShort(r) == Len(r) < MinRingPoints

\* "if ring[0] != ring[-1]: ring.append(ring[0])"
CloseRingOf(r) == IF r[1] # r[Len(r)] THEN Append(r, r[1]) ELSE r

\* mutant: the ring is not reset for each block
NewRing_Carry(previous) == previous

\* "ring: List[Tuple[float, float]] = []" inside the loop over polygon_nodes
NewRing(previous) == <<>>

\* mutant: the polygon is put in front
AppendPolygon_Front(mp, r) == <<<<r>>>> \o mp

\* "multipolygons.append([ring])"
AppendPolygon(mp, r) == Append(mp, <<r>>)

\* cz.get("id") or "unknown"; attrs is the set of <<name, value>> attributes
ResolveId(attrs) ==
    LET ids == {a[2] : a \in {b \in attrs : b[1] = "id"}}
    IN  IF ids = {} \/ ids = {""} THEN "unknown" ELSE CHOOSE v \in ids : TRUE

\* mutant: the name text is not stripped
ResolveName_NoStrip(names, id) ==
    IF names # <<>> THEN AsString(Join(names[1])) ELSE id

\* _text(name_nodes[0]) if name_nodes else zone_id
ResolveName(names, id) ==
    IF names # <<>> THEN AsString(NodeText(names[1])) ELSE id

\* the Feature dict appended to features
MakeFeature(name, id, mp) ==
    [type |-> "Feature",
     properties |-> [ZONAS |-> name, ZBE_ID |-> id],
     geometry |-> [type |-> "MultiPolygon", coordinates |-> mp]]

\* mutant: the new feature is put in front
EmitFeature_Prepend(fs, name, id, mp) ==
    IF mp = <<>> THEN fs ELSE <<MakeFeature(name, id, mp)>> \o fs

\* mutant: a zone without rings is not skipped
EmitFeature_NoSkip(fs, name, id, mp) == Append(fs, MakeFeature(name, id, mp))

\* "if not multipolygons: continue", else features.append(...)
EmitFeature(fs, name, id, mp) ==
    IF mp = <<>> THEN fs ELSE Append(fs, MakeFeature(name, id, mp))

\* ------------------------------------------------------ extractor, actions
Zone == content[zi]

Block == Zone.blocks[bi]

\* mutant: the exception is swallowed and the run goes on to its last line
AfterFailure_Swallowed == "print"

\* where an unhandled exception leaves the run
AfterFailure == "crashed"

\* lines 50-52: etree.fromstring raises on malformed XML; else the loop starts
ParseXml ==
    /\ pc = "parse"
    /\ IF wellformed
       THEN /\ pc' = "zone"
            /\ error' = error
       ELSE /\ pc' = AfterFailure
            /\ error' = "ParseError"
    /\ zi' = 1
    /\ features' = <<>>
    /\ emitted_from' = <<>>
    /\ zone_id' = ""
    /\ zone_name' = ""
    /\ multipolygons' = <<>>
    /\ bi' = 1
    /\ ci' = 1
    /\ ring' = <<>>
    /\ UNCHANGED <<SOURCES, si, wellformed, content, all_features, writes, fetches,
                   printed>>

\* lines 54-64: the head of one iteration over cz_nodes
ZoneStart ==
    /\ pc = "zone"
    /\ zi <= Len(content)
    /\ zone_id' = ResolveId(Zone.attrs)
    /\ zone_name' = ResolveName(Zone.names, ResolveId(Zone.attrs))
    /\ multipolygons' = <<>>
    /\ bi' = 1
    /\ pc' = "poly"
    /\ UNCHANGED <<content, zi, ci, ring, features, emitted_from>>
    /\ UNCHANGED mainVars

\* lines 66-68: the head of one iteration over polygon_nodes
PolyStart ==
    /\ pc = "poly"
    /\ bi <= Len(Zone.blocks)
    /\ ring' = NewRing(ring)
    /\ ci' = 1
    /\ pc' = "coords"
    /\ UNCHANGED <<content, zi, zone_id, zone_name, multipolygons, bi, features,
                   emitted_from>>
    /\ UNCHANGED mainVars

\* lines 70-80: one iteration over coords_nodes
ReadCoord ==
    /\ pc = "coords"
    /\ ci <= Len(Block)
    /\ ring' = CoordStep(ring, Block[ci])
    /\ ci' = ci + 1
    /\ UNCHANGED <<pc, content, zi, zone_id, zone_name, multipolygons, bi, features,
                   emitted_from>>
    /\ UNCHANGED mainVars

\* lines 83-87: discard a short ring, else order it
CheckRing ==
    /\ pc = "coords"
    /\ ci > Len(Block)
    /\ IF RingTooShort(ring)
       THEN /\ bi' = bi + 1
            /\ pc' = "poly"
            /\ ring' = ring
       ELSE /\ ring' = order_ring(ring)
            /\ pc' = "close"
            /\ bi' = bi
    /\ UNCHANGED <<content, zi, zone_id, zone_name, multipolygons, ci, features,
                   emitted_from>>
    /\ UNCHANGED mainVars

\* lines 90-94: close the ring and append it as one polygon
CloseRing ==
    /\ pc = "close"
    /\ ring' = CloseRingOf(ring)
    /\ multipolygons' = AppendPolygon(multipolygons, CloseRingOf(ring))
    /\ bi' = bi + 1
    /\ pc' = "poly"
    /\ UNCHANGED <<content, zi, zone_id, zone_name, ci, features, emitted_from>>
    /\ UNCHANGED mainVars

\* lines 96-111: after the last block, skip the zone or append its feature
ZoneEnd ==
    /\ pc = "poly"
    /\ bi > Len(Zone.blocks)
    /\ features' = EmitFeature(features, zone_name, zone_id, multipolygons)
    /\ emitted_from' = IF Len(features') > Len(features)
                       THEN Append(emitted_from, zi)
                       ELSE emitted_from
    /\ zi' = zi + 1
    /\ pc' = "zone"
    /\ UNCHANGED <<content, zone_id, zone_name, multipolygons, bi, ci, ring>>
    /\ UNCHANGED mainVars

\* line 113: return features
ParseReturn ==
    /\ pc = "zone"
    /\ zi > Len(content)
    /\ pc' = "returned"
    /\ UNCHANGED <<content, zi, zone_id, zone_name, multipolygons, bi, ci, ring,
                   features, emitted_from>>
    /\ UNCHANGED mainVars

NextExtract ==
    \/ ParseXml
    \/ ZoneStart
    \/ PolyStart
    \/ ReadCoord
    \/ CheckRing
    \/ CloseRing
    \/ ZoneEnd
    \/ ParseReturn

\* ------------------------------------------------------------------ inputs
\* an element holding one text fragment
Elem(chars) == <<chars>>

\* an openlrCoordinates node with latitude and longitude children
CoordNode(lonText, latText) ==
    [latitude |-> <<Elem(latText)>>, longitude |-> <<Elem(lonText)>>]

\* the coordinate values of the well-formed nodes
GridValues == {0, 1}

GridNode(x, y) == CoordNode(<<DigitChars[x + 1]>>, <<DigitChars[y + 1]>>)

GridNodes == {GridNode(x, y) : x \in GridValues, y \in GridValues}

\* no latitude child
NodeNoLatitude == [latitude |-> <<>>, longitude |-> <<Elem(<<"1">>)>>]

\* no longitude child
NodeNoLongitude == [latitude |-> <<Elem(<<"0">>)>>, longitude |-> <<>>]

\* a longitude that is not a number
NodeBadLongitude == CoordNode(<<"x">>, <<"1">>)

\* an empty latitude element
NodeEmptyLatitude == CoordNode(<<"0">>, <<>>)

\* a signed longitude and a padded latitude: the point (-1, 1)
NodeSignedPadded == CoordNode(<<"-", "1">>, <<" ", "1", " ">>)

OddNodes ==
    {NodeNoLatitude, NodeNoLongitude, NodeBadLongitude, NodeEmptyLatitude,
     NodeSignedPadded}

CoordNodes == GridNodes \cup OddNodes

SeqsUpTo(S, n) == UNION {[1..k -> S] : k \in 0..n}

ExtractorIdle ==
    /\ SOURCES = <<"madrid">>
    /\ si = 1
    /\ wellformed = TRUE
    /\ all_features = <<>>
    /\ writes = <<>>
    /\ fetches = <<>>
    /\ printed = FALSE
    /\ error = ""

ExtractorStart ==
    /\ pc = "parse"
    /\ zi = 1
    /\ zone_id = ""
    /\ zone_name = ""
    /\ multipolygons = <<>>
    /\ bi = 1
    /\ ci = 1
    /\ ring = <<>>
    /\ features = <<>>
    /\ emitted_from = <<>>

\* one zone with one block: every block of up to MaxCoords coordinate nodes
InitRing ==
    /\ ExtractorIdle
    /\ ExtractorStart
    /\ \E b \in SeqsUpTo(CoordNodes, MaxCoords) :
          content = <<[attrs |-> {<<"id", "Z1">>},
                       names |-> <<Elem(<<"C">>)>>,
                       blocks |-> <<b>>]>>

SpecRing == InitRing /\ [][NextExtract]_vars

\* ------------------------------------------------------------ zone inputs
\* three valid points
BlockTriangle == <<GridNode(0, 0), GridNode(1, 0), GridNode(0, 1)>>

\* three valid points among two skipped nodes, none shared with BlockTriangle
BlockSkips ==
    <<GridNode(2, 2), NodeBadLongitude, GridNode(2, 0), NodeNoLatitude, NodeSignedPadded>>

\* two valid points and a skipped node
BlockShort == <<GridNode(0, 0), NodeEmptyLatitude, GridNode(1, 1)>>

\* the quadrilateral (0,0),(1,1),(1,0),(0,1), out of order
BlockQuad == <<GridNode(0, 0), GridNode(1, 1), GridNode(1, 0), GridNode(0, 1)>>

BlockPalette == {BlockTriangle, BlockSkips, BlockShort, BlockQuad}

AttrPalette ==
    {{}, {<<"id", "">>}, {<<"id", "Z1">>}, {<<"version", "madrid-centro">>},
     {<<"id", "Z2">>, <<"version", "madrid-centro">>}}

\* the descendant nodes named "name": none, an empty one, a padded text in two
\* fragments, and two nodes
NamePalette ==
    {<<>>,
     <<Elem(<<>>)>>,
     <<<<<<" ", "C">>, <<"a", " ">>>>>>,
     <<Elem(<<"N">>), Elem(<<"M">>)>>}

\* one zone: every attribute set, name list and list of up to MaxBlocks blocks
InitZone ==
    /\ ExtractorIdle
    /\ ExtractorStart
    /\ \E a \in AttrPalette, n \in NamePalette, bs \in SeqsUpTo(BlockPalette, MaxBlocks) :
          content = <<[attrs |-> a, names |-> n, blocks |-> bs]>>

SpecZone == InitZone /\ [][NextExtract]_vars

\* -------------------------------------------------------- document inputs
ZoneCentro ==
    [attrs |-> {<<"id", "Z1">>},
     names |-> <<Elem(<<"C">>)>>,
     blocks |-> <<BlockTriangle, BlockSkips>>]

\* only two valid points
ZoneTwoPoints ==
    [attrs |-> {<<"id", "Z2">>}, names |-> <<Elem(<<"N">>)>>, blocks |-> <<BlockShort>>]

\* no block at all, no id, no name
ZoneBare == [attrs |-> {}, names |-> <<>>, blocks |-> <<>>]

ZoneQuad ==
    [attrs |-> {<<"id", "Z3">>}, names |-> <<>>, blocks |-> <<BlockShort, BlockQuad>>]

ZonePalette == {ZoneCentro, ZoneTwoPoints, ZoneBare, ZoneQuad}

\* every document of up to MaxZones zones
InitParse ==
    /\ ExtractorIdle
    /\ ExtractorStart
    /\ content \in SeqsUpTo(ZonePalette, MaxZones)

SpecParse == InitParse /\ [][NextExtract]_vars

\* -------------------------------------------------------------------- main
OUT_DIR == "geojson"

Cities == {"madrid", "barcelona", "bilbao"}

\* what the endpoints may answer
MainDocs == {<<>>, <<ZoneCentro>>, <<ZoneTwoPoints, ZoneQuad>>}

build_feature_collection(name, fs) ==
    [type |-> "FeatureCollection", name |-> name, features |-> fs]

\* f["properties"]["CITY"] = city
TagCity(f, city) == [f EXCEPT !.properties = [CITY |-> city] @@ f.properties]

TagAll(fs, city) == [k \in 1..Len(fs) |-> TagCity(fs[k], city)]

CityPath(city) == OUT_DIR \o "/" \o city \o ".geojson"

AggregatePath == OUT_DIR \o "/" \o "spain_all_zbe.geojson"

\* all_features.extend(features)
Extend(all, fs) == all \o fs

\* mutant: the aggregate is written for a single source too
AggregateWanted_AtLeastOne(n) == n >= 1

\* "if len(SOURCES) > 1"
AggregateWanted(n) == n > 1

\* the file system after open(path, "w") and json.dump: the file holds data
WriteFile(path, data) == Append(writes, [path |-> path, data |-> data, complete |-> TRUE])

\* a failed write: open() raised (nothing changes) or json.dump raised after
\* open() truncated the file
WriteAttempts(path, data) ==
    {writes, Append(writes, [path |-> path, data |-> data, complete |-> FALSE])}

extractVars ==
    <<content, zi, zone_id, zone_name, multipolygons, bi, ci, ring, features,
      emitted_from>>

\* lines 127-134: the next source is fetched and answers 2xx
FetchOk ==
    /\ pc = "loop"
    /\ si <= Len(SOURCES)
    /\ \E d \in MainDocs, wf \in BOOLEAN :
          /\ wellformed' = wf
          /\ content' = IF wf THEN d ELSE <<>>
    /\ fetches' = Append(fetches, si)
    /\ pc' = "parse"
    /\ UNCHANGED <<SOURCES, si, zi, zone_id, zone_name, multipolygons, bi, ci, ring,
                   features, emitted_from, all_features, writes, printed, error>>

\* lines 131-132: requests.get or raise_for_status raises
FetchFail ==
    /\ pc = "loop"
    /\ si <= Len(SOURCES)
    /\ fetches' = Append(fetches, si)
    /\ error' = "FetchError"
    /\ pc' = AfterFailure
    /\ UNCHANGED <<SOURCES, si, wellformed, all_features, writes, printed>>
    /\ UNCHANGED extractVars

\* lines 137-146: tag the features, write the city's file, extend all_features
TagAndWrite ==
    /\ pc = "returned"
    /\ features' = TagAll(features, SOURCES[si])
    /\ writes' = WriteFile(CityPath(SOURCES[si]),
                           build_feature_collection("zbe_" \o SOURCES[si],
                                                    TagAll(features, SOURCES[si])))
    /\ all_features' = Extend(all_features, TagAll(features, SOURCES[si]))
    /\ si' = si + 1
    /\ pc' = "loop"
    /\ UNCHANGED <<SOURCES, wellformed, content, zi, zone_id, zone_name, multipolygons,
                   bi, ci, ring, emitted_from, fetches, printed, error>>

\* lines 143-144: open or json.dump raises
WriteFail ==
    /\ pc = "returned"
    /\ features' = TagAll(features, SOURCES[si])
    /\ writes' \in WriteAttempts(CityPath(SOURCES[si]),
                                 build_feature_collection("zbe_" \o SOURCES[si],
                                                          TagAll(features, SOURCES[si])))
    /\ error' = "WriteError"
    /\ pc' = AfterFailure
    /\ UNCHANGED <<SOURCES, si, wellformed, content, zi, zone_id, zone_name,
                   multipolygons, bi, ci, ring, emitted_from, all_features, fetches,
                   printed>>

\* lines 149-153: after the loop, the aggregate file when it is wanted
Aggregate ==
    /\ pc = "loop"
    /\ si > Len(SOURCES)
    /\ writes' = IF AggregateWanted(Len(SOURCES))
                 THEN WriteFile(AggregatePath,
                                build_feature_collection("zbe_spain_all", all_features))
                 ELSE writes
    /\ pc' = "print"
    /\ UNCHANGED <<SOURCES, si, wellformed, all_features, fetches, printed, error>>
    /\ UNCHANGED extractVars

\* lines 152-153: open or json.dump raises on the aggregate file
AggregateFail ==
    /\ pc = "loop"
    /\ si > Len(SOURCES)
    /\ AggregateWanted(Len(SOURCES))
    /\ writes' \in WriteAttempts(AggregatePath,
                                 build_feature_collection("zbe_spain_all", all_features))
    /\ error' = "WriteError"
    /\ pc' = AfterFailure
    /\ UNCHANGED <<SOURCES, si, wellformed, all_features, fetches, printed>>
    /\ UNCHANGED extractVars

\* line 155
PrintDone ==
    /\ pc = "print"
    /\ printed' = TRUE
    /\ pc' = "done"
    /\ UNCHANGED <<SOURCES, si, wellformed, all_features, writes, fetches, error>>
    /\ UNCHANGED extractVars

\* the lists of 1..MaxSources entries; the cities differ, as each names a file
SourceLists ==
    {s \in UNION {[1..n -> Cities] : n \in 1..MaxSources} :
        \A i, j \in 1..Len(s) : i # j => s[i] # s[j]}

Init ==
    /\ SOURCES \in SourceLists
    /\ si = 1
    /\ pc = "loop"
    /\ wellformed = TRUE
    /\ content = <<>>
    /\ zi = 1
    /\ zone_id = ""
    /\ zone_name = ""
    /\ multipolygons = <<>>
    /\ bi = 1
    /\ ci = 1
    /\ ring = <<>>
    /\ features = <<>>
    /\ emitted_from = <<>>
    /\ all_features = <<>>
    /\ writes = <<>>
    /\ fetches = <<>>
    /\ printed = FALSE
    /\ error = ""

Next ==
    \/ FetchOk
    \/ FetchFail
    \/ NextExtract
    \/ TagAndWrite
    \/ WriteFail
    \/ Aggregate
    \/ AggregateFail
    \/ PrintDone

Spec == Init /\ [][Next]_vars

\* ================================================================== claims
\* what the claims speak of, stated from the input document alone

PointSet(r) == {r[k] : k \in 1..Len(r)}

Count(r, x) == Cardinality({k \in 1..Len(r) : r[k] = x})

IsPermutation(a, b) ==
    /\ Len(a) = Len(b)
    /\ \A x \in PointSet(a) \cup PointSet(b) : Count(a, x) = Count(b, x)

\* the node has both children and both texts are numbers
NodeIsValid(c) ==
    /\ c.latitude # <<>>
    /\ c.longitude # <<>>
    /\ FloatParses(Join(c.latitude[1]))
    /\ FloatParses(Join(c.longitude[1]))

NodePair(c) == <<FloatValue(Join(c.longitude[1])), FloatValue(Join(c.latitude[1]))>>

\* the (lon, lat) pairs of the valid nodes of a block, in document order
ParsedPairs(block) ==
    LET v == SelectSeq(block, NodeIsValid)
    IN  [k \in 1..Len(v) |-> NodePair(v[k])]

BlockIsValid(block) == Len(ParsedPairs(block)) >= 3

ValidBlocks(zone) == SelectSeq(zone.blocks, BlockIsValid)

ZoneHasRing(zone) == ValidBlocks(zone) # <<>>

Coordinates(f) == f.geometry.coordinates

\* ---------------------------------------------------------------------- C1
\* C1: every ring in a feature's geometry has at least 4 entries, at least 3
\* distinct points, and its first point equal to its last.
C1_RingsClosedThreeDistinct ==
    \A k \in 1..Len(features) : \A j \in 1..Len(Coordinates(features[k])) :
        LET r == Coordinates(features[k])[j][1]
        IN  /\ Len(r) >= 4
            /\ Cardinality(PointSet(r)) >= 3
            /\ r[1] = r[Len(r)]

\* ---------------------------------------------------------------------- C5
\* C5: a coordinate node without latitude or longitude, or with a text that is
\* not a number, is skipped alone: the run does not fail, while a block is read
\* the ring holds exactly the pairs parsed so far, the ordered ring (before the
\* closing point) is a permutation of exactly the block's parsed pairs, and a
\* zone with a block of 3 parsed pairs still gets its feature.
C5_SkippedNodesAlone ==
    /\ error = ""
    /\ pc = "coords" => ring = ParsedPairs(SubSeq(Block, 1, ci - 1))
    /\ pc = "close" => IsPermutation(ring, ParsedPairs(Block))
    /\ pc = "returned" =>
          \A i \in 1..Len(content) :
              ZoneHasRing(content[i]) => i \in PointSet(emitted_from)

\* a block with skipped nodes whose three parsed pairs were reordered
C5_Witness ==
    /\ pc = "close"
    /\ \E k \in 1..Len(Block) : ~NodeIsValid(Block[k])
    /\ Len(ring) = 3
    /\ ring # ParsedPairs(Block)

\* ---------------------------------------------------------------------- C3
RingsMatchBlocks(mp, blocks) ==
    /\ Len(mp) = Len(blocks)
    /\ \A k \in 1..Len(mp) :
          /\ Len(mp[k]) = 1
          /\ PointSet(mp[k][1]) = PointSet(ParsedPairs(blocks[k]))

\* C3: each block is a ring of its own: the polygons of a zone are, in
\* document order, one per block with at least 3 valid pairs, and the points of
\* each ring are those of its own block.
C3_OneRingPerBlock ==
    /\ pc = "poly" =>
          RingsMatchBlocks(multipolygons,
                           SelectSeq(SubSeq(Zone.blocks, 1, bi - 1), BlockIsValid))
    /\ \A k \in 1..Len(features) :
          RingsMatchBlocks(Coordinates(features[k]),
                           ValidBlocks(content[emitted_from[k]]))

TwoBlocksOfThree(zone) ==
    /\ Len(zone.blocks) = 2
    /\ \A j \in 1..2 : Len(ParsedPairs(zone.blocks[j])) = 3

\* two different blocks of 3 valid points each gave exactly 2 rings
C3_Witness ==
    /\ pc = "returned"
    /\ Len(features) = 1
    /\ TwoBlocksOfThree(content[1])
    /\ content[1].blocks[1] # content[1].blocks[2]
    /\ Len(Coordinates(features[1])) = 2

\* ---------------------------------------------------------------------- C4
\* all the parsed pairs under a zone, in document order
RECURSIVE AllPairs(_)
AllPairs(blocks) ==
    IF blocks = <<>> THEN <<>>
    ELSE ParsedPairs(Head(blocks)) \o AllPairs(Tail(blocks))

\* C4 as claimed: flat extraction can be had, so that a zone with two blocks
\* of 3 valid points each yields one polygon whose ring is built from the 6
\* points.  The extractor takes the document as its only argument, so a run
\* of it is the only thing a selection could be.
C4_FlatSingleRing ==
    \A k \in 1..Len(features) :
        TwoBlocksOfThree(content[emitted_from[k]]) =>
            /\ Len(Coordinates(features[k])) = 1
            /\ PointSet(Coordinates(features[k])[1][1])
                  = PointSet(AllPairs(content[emitted_from[k]].blocks))

\* C4 amended: only grouped extraction exists: a zone with two blocks of 3
\* valid points each yields exactly 2 polygons, each with one ring of at most 4
\* entries made of the points of its own block, never one ring over the 6
\* points.
C4_GroupedOnly ==
    \A k \in 1..Len(features) :
        TwoBlocksOfThree(content[emitted_from[k]]) =>
            /\ Len(Coordinates(features[k])) = 2
            /\ \A j \in 1..2 :
                  LET r == Coordinates(features[k])[j][1]
                  IN  /\ Len(Coordinates(features[k])[j]) = 1
                      /\ Len(r) <= 4
                      /\ PointSet(r)
                            = PointSet(ParsedPairs(content[emitted_from[k]].blocks[j]))

\* the zone of the scenario: two blocks with disjoint point sets
C4_Witness ==
    /\ pc = "returned"
    /\ Len(features) = 1
    /\ content[1].blocks = <<BlockTriangle, BlockSkips>>
    /\ Len(Coordinates(features[1])) = 2
    /\ Len(AllPairs(content[1].blocks)) = 6

\* ---------------------------------------------------------------------- C8
HasId(attrs) == \E a \in attrs : a[1] = "id" /\ a[2] # ""

IdOf(attrs) == (CHOOSE a \in attrs : a[1] = "id")[2]

\* the values used in AttrPalette that contain a known city name
CityValues == {"madrid-centro"}

\* the attribute values that contain a known city name
CityAttrValues(attrs) == {a[2] : a \in {b \in attrs : b[2] \in CityValues}}

ClaimedId(attrs) ==
    IF HasId(attrs) THEN IdOf(attrs)
    ELSE IF CityAttrValues(attrs) # {} THEN CHOOSE v \in CityAttrValues(attrs) : TRUE
    ELSE "unknown"

IdOrUnknown(attrs) == IF HasId(attrs) THEN IdOf(attrs) ELSE "unknown"

\* str is chars without its leading and trailing whitespace
IsTrimOf(str, chars) ==
    \E i, j \in 0..Len(chars) :
        /\ i + j <= Len(chars)
        /\ \A k \in 1..i : chars[k] \in Whitespace
        /\ \A k \in (Len(chars) - j + 1)..Len(chars) : chars[k] \in Whitespace
        /\ LET t == SubSeq(chars, i + 1, Len(chars) - j)
           IN  /\ t # <<>> => t[1] \notin Whitespace /\ t[Len(t)] \notin Whitespace
               /\ str = AsString(t)

\* the name is the trimmed text of the first name node, or the identifier
NameResolved(f, zone) ==
    IF zone.names = <<>>
    THEN f.properties.ZONAS = f.properties.ZBE_ID
    ELSE IsTrimOf(f.properties.ZONAS, Join(zone.names[1]))

\* C8 as claimed: the identifier is the id attribute, else an attribute value
\* containing a known city name, else "unknown"; the name is the trimmed text
\* of the first name node, else the identifier.
C8_IdWithCityFallback ==
    \A k \in 1..Len(features) :
        /\ features[k].properties.ZBE_ID = ClaimedId(content[emitted_from[k]].attrs)
        /\ NameResolved(features[k], content[emitted_from[k]])

\* C8 amended: the identifier is the id attribute when it is present and not
\* empty, else "unknown" (no other attribute is looked at); the name is the
\* trimmed text of the first name node, else the identifier.
C8_IdOrUnknown ==
    \A k \in 1..Len(features) :
        /\ features[k].properties.ZBE_ID = IdOrUnknown(content[emitted_from[k]].attrs)
        /\ NameResolved(features[k], content[emitted_from[k]])

\* a zone with no id, an attribute naming a city and a padded name text
C8_Witness ==
    /\ pc = "returned"
    /\ Len(features) = 1
    /\ content[1].attrs = {<<"version", "madrid-centro">>}
    /\ features[1].properties.ZBE_ID = "unknown"
    /\ content[1].names # <<>>
    /\ Len(Join(content[1].names[1])) = 4
    /\ features[1].properties.ZONAS = "Ca"

\* ---------------------------------------------------------------------- C2
\* C2: a zone none of whose blocks has 3 valid pairs produces no feature, and
\* the run goes on: nothing fails and every zone already passed that has a
\* valid ring has its feature.
C2_NoRingNoFeature ==
    /\ error = ""
    /\ Len(emitted_from) = Len(features)
    /\ \A k \in 1..Len(emitted_from) : ZoneHasRing(content[emitted_from[k]])
    /\ \A i \in 1..Len(content) :
          (i < zi /\ ZoneHasRing(content[i])) => i \in PointSet(emitted_from)

\* a zone with two points was dropped and the zone after it gave a feature
C2_Witness ==
    /\ pc = "returned"
    /\ content = <<ZoneTwoPoints, ZoneQuad>>
    /\ emitted_from = <<2>>
    /\ features[1].properties.ZBE_ID = "Z3"

\* --------------------------------------------------------------------- C10
ExpectedRing(block) == CloseRingOf(order_ring(ParsedPairs(block)))

ExpectedFeature(zone) ==
    LET bs == ValidBlocks(zone)
    IN  MakeFeature(ResolveName(zone.names, ResolveId(zone.attrs)),
                    ResolveId(zone.attrs),
                    [j \in 1..Len(bs) |-> <<ExpectedRing(bs[j])>>])

\* the features of a document as a function of the document alone
ExpectedFeatures(doc) ==
    LET zs == SelectSeq(doc, ZoneHasRing)
    IN  [k \in 1..Len(zs) |-> ExpectedFeature(zs[k])]

\* C10: the feature list is a function of the document (two runs on the same
\* bytes return the same list), and the features are in the document order of
\* their zones.
C10_DocumentOrder ==
    /\ \A k \in 1..(Len(emitted_from) - 1) : emitted_from[k] < emitted_from[k + 1]
    /\ \A k \in 1..Len(features) :
          k <= Len(emitted_from) =>
              features[k].properties.ZBE_ID = ResolveId(content[emitted_from[k]].attrs)
    /\ pc = "returned" => features = ExpectedFeatures(content)

\* a dropped zone between two zones that gave different features
C10_Witness ==
    /\ pc = "returned"
    /\ Len(content) = 3
    /\ emitted_from = <<1, 3>>
    /\ features[1] # features[2]

\* ---------------------------------------------------------------------- C9
IsPosition(p) == Len(p) = 2 /\ p[1] \in Int /\ p[2] \in Int

IsRing(r) == Len(r) >= 1 /\ \A k \in 1..Len(r) : IsPosition(r[k])

\* the coordinates have the depth the geometry type asks for and are not empty
GeometryShaped(g) ==
    /\ g.type \in {"Polygon", "MultiPolygon"}
    /\ Len(g.coordinates) >= 1
    /\ g.type = "MultiPolygon" =>
          \A j \in 1..Len(g.coordinates) :
              Len(g.coordinates[j]) = 1 /\ IsRing(g.coordinates[j][1])
    /\ g.type = "Polygon" =>
          \A j \in 1..Len(g.coordinates) : IsRing(g.coordinates[j])

\* C9: in every collection written, every feature's coordinates have the
\* nesting of its geometry type (MultiPolygon: polygons of exactly one ring of
\* pairs) and are not empty.
C9_GeometryDepth ==
    \A w \in 1..Len(writes) :
        /\ writes[w].data.type = "FeatureCollection"
        /\ \A k \in 1..Len(writes[w].data.features) :
              /\ writes[w].data.features[k].type = "Feature"
              /\ GeometryShaped(writes[w].data.features[k].geometry)

\* a written collection holds a feature with two polygons
C9_Witness ==
    \E w \in 1..Len(writes) :
        /\ writes[w].complete
        /\ \E k \in 1..Len(writes[w].data.features) :
              Len(Coordinates(writes[w].data.features[k])) = 2

\* ---------------------------------------------------------------------- C6
RECURSIVE PerCityFeatures(_)
\* the features of the first n files written, concatenated
PerCityFeatures(n) ==
    IF n = 0 THEN <<>> ELSE PerCityFeatures(n - 1) \o writes[n].data.features

\* the first n writes are the complete files of the first n SOURCES
PerCityFilesWritten(n) ==
    /\ Len(writes) >= n
    /\ \A i \in 1..n :
          /\ writes[i].path = CityPath(SOURCES[i])
          /\ writes[i].complete
          /\ writes[i].data.name = "zbe_" \o SOURCES[i]
          /\ \A k \in 1..Len(writes[i].data.features) :
                writes[i].data.features[k].properties.CITY = SOURCES[i]

\* C6: once the loop is over the aggregate file is written iff more than one
\* source is configured; it is written after every per-city file, and holds
\* the per-city features concatenated in source order, each with its CITY.
C6_AggregateIffSeveral ==
    /\ pc \in {"print", "done"} =>
          ((\E w \in 1..Len(writes) : writes[w].path = AggregatePath)
              <=> Len(SOURCES) > 1)
    /\ \A w \in 1..Len(writes) :
          writes[w].path = AggregatePath =>
              /\ Len(SOURCES) > 1
              /\ w = Len(SOURCES) + 1
              /\ PerCityFilesWritten(Len(SOURCES))
              /\ writes[w].data.name = "zbe_spain_all"
              /\ writes[w].data.features = PerCityFeatures(Len(SOURCES))

\* two SOURCES, and an aggregate with features of both cities
C6_Witness ==
    /\ pc = "done"
    /\ Len(SOURCES) = 2
    /\ Len(writes) = 3
    /\ \E a, b \in 1..Len(writes[3].data.features) :
          /\ writes[3].data.features[a].properties.CITY = SOURCES[1]
          /\ writes[3].data.features[b].properties.CITY = SOURCES[2]

\* ---------------------------------------------------------------------- C7
FetchedUpTo(n) == fetches = [i \in 1..n |-> i]

\* C7: a failure while source si is processed ends the run: after a fetch or
\* parse failure exactly the files of the SOURCES before si exist, after a
\* write failure at most a broken file of source si besides; no later source
\* was fetched, no aggregate was written, nothing was printed.  The message is
\* printed only after every source was fetched, parsed and written.
C7_FailureIsFatal ==
    /\ (error # "") <=> (pc = "crashed")
    /\ error # "" => ~printed
    /\ error \in {"FetchError", "ParseError"} =>
          /\ Len(writes) = si - 1
          /\ PerCityFilesWritten(si - 1)
          /\ FetchedUpTo(si)
    /\ (error = "WriteError" /\ si <= Len(SOURCES)) =>
          /\ PerCityFilesWritten(si - 1)
          /\ FetchedUpTo(si)
          /\ Len(writes) <= si
          /\ Len(writes) = si =>
                writes[si].path = CityPath(SOURCES[si]) /\ ~writes[si].complete
    /\ (error = "WriteError" /\ si > Len(SOURCES)) =>
          \A w \in 1..Len(writes) :
              writes[w].path = AggregatePath => ~writes[w].complete
    /\ printed =>
          /\ si = Len(SOURCES) + 1
          /\ FetchedUpTo(Len(SOURCES))
          /\ PerCityFilesWritten(Len(SOURCES))

\* the second source's document was malformed after the first file was written
C7_Witness ==
    /\ pc = "crashed"
    /\ error = "ParseError"
    /\ si = 2
    /\ Len(SOURCES) = 2
    /\ Len(writes) = 1
    /\ writes[1].path = CityPath(SOURCES[1])

====
